---- MODULE Spec2Model ----
(***************************************************************************)
(* Model of the agent execution core of smart-comm-router:                 *)
(*   app/agents/base_agent.py           BaseAgent.execute, Timer, fallback *)
(*   app/agents/classify_agent.py       ClassificationAgent                *)
(*   app/agents/draft_response_agent.py DraftResponseAgent                 *)
(*   app/ingestion/sources.py           ingest_from_gmail, ingest_from_phone *)
(*   app/routes/messages.py             POST /ingest                       *)
(*                                                                         *)
(* Python dicts are functions from keys (strings) to values; texts are     *)
(* sequences of one-character strings; a confidence is an integer number   *)
(* of hundredths (0.7 is 70).  Invocations run on one event loop: cur is   *)
(* the invocation that holds the loop, 0 when the loop is free, and an     *)
(* invocation gives the loop up only at the gateway await.                 *)
(***************************************************************************)
EXTENDS Integers, Sequences, FiniteSets, TLC

\* ------------------------------------------------------------------ bounds

\* Number of invocations (execute calls or awaited run coroutines) of a behaviour.
MaxInv == 2

Inv == 1..MaxInv

\* Number of ingestion requests (direct calls of an ingestion function or
\* POST /ingest requests) of a behaviour.
MaxReq == 2

Req == 1..MaxReq

\* Number of steps the clock makes in a behaviour.
MaxTicks == 2

\* The lengths of the reply texts reach this far from 0 and from the cap.
MaxOver == 4

\* ------------------------------------------------------- program constants

\* confidence_threshold = 0.7, in hundredths
ConfidenceThreshold == 70

\* preprocess: len(content.strip()) < 10
MinContentLen == 10

\* _sanitize: clean[:2000]
MaxContentLen == 2000

\* _process_reply: reply.strip()[:1000]
MaxReplyLen == 1000

\* classification.get("confidence", 0.85), in hundredths
DefaultDraftConfidence == 85

\* @retry(stop=stop_after_attempt(3), ...)
MaxAttempts == 3

\* TTLCache(maxsize=1000, ttl=3600): the time-to-live in seconds
CacheTtl == 3600

PrimaryModel == "gpt-4"

FallbackModel == "gpt-3.5-turbo"

CategoryType ==
  {"Billing Support", "Dispatch Communication", "Sensor Alert", "Marketing",
   "General Inquiry"}

PriorityLevel == {"High", "Medium", "Low"}

QueueType ==
  {"Finance Support", "Dispatch Team", "Ops Team", "Automation", "Customer Support"}

\* Python's None
None == "None"

\* ------------------------------------------------------------ dict helpers

EmptyDict == <<>>

Has(d, k) == k \in DOMAIN d

\* dict.get(k, default)
Get(d, k, default) == IF k \in DOMAIN d THEN d[k] ELSE default

\* d[k] = v ; d.update({k: v})
Put(d, k, v) == [x \in (DOMAIN d) \cup {k} |-> IF x = k THEN v ELSE d[x]]

\* `not d.get(k)` for a text or dict value: the key is absent or its value is empty
Falsy(d, k) == ~Has(d, k) \/ d[k] = <<>>

Min(a, b) == IF a < b THEN a ELSE b

Max(a, b) == IF a > b THEN a ELSE b

\* ------------------------------------------------------------ text helpers

Whitespace == {" ", "\n", "\r", "\t"}

RECURSIVE LStrip(_)
LStrip(s) ==
  IF s = <<>> THEN <<>>
  ELSE IF Head(s) \in Whitespace THEN LStrip(Tail(s)) ELSE s

RECURSIVE RStrip(_)
RStrip(s) ==
  IF s = <<>> THEN <<>>
  ELSE IF s[Len(s)] \in Whitespace THEN RStrip(SubSeq(s, 1, Len(s) - 1)) ELSE s

\* str.strip()
Strip(s) == RStrip(LStrip(s))

\* s[:n]
Take(s, n) == SubSeq(s, 1, Min(n, Len(s)))

\* text.replace("\n", " ").replace("\r", "")
ReplaceNewlines(s) ==
  LET spaced == [k \in 1..Len(s) |-> IF s[k] = "\n" THEN " " ELSE s[k]]
  IN  SelectSeq(spaced, LAMBDA c : c # "\r")

\* ClassificationAgent._sanitize, DraftResponseAgent._sanitize
Sanitize(text) == Take(Strip(ReplaceNewlines(text)), MaxContentLen)

\* DraftResponseAgent._process_reply
ProcessReply(reply) ==
  LET clean_reply == Take(Strip(reply), MaxReplyLen)
  IN  IF clean_reply # <<>> /\ clean_reply[Len(clean_reply)] # "."
      THEN Append(clean_reply, ".")
      ELSE clean_reply

\* ------------------------------------------------------------------ agents

\* ClassificationAgent, DraftResponseAgent, and Generic: a BaseAgent subclass
\* whose hooks are synchronous and may each succeed or raise.
AsyncAgents == {"classify", "draft"}

Agents == AsyncAgents \cup {"generic"}

AgentName(a) ==
  CASE a = "classify" -> "ClassificationAgent"
    [] a = "draft" -> "DraftResponseAgent"
    [] OTHER -> "BaseAgent"

AgentVersion(a) == IF a \in AsyncAgents THEN "2.0.0" ELSE "1.0"

\* BaseAgent.fallback_config and ClassificationAgent.fallback_config
BaseFallbackConfig ==
  [category |-> "General Inquiry", priority |-> "Medium", intent |-> "Unknown",
   recommended_queue |-> "Customer Support", confidence |-> 0]

FallbackReplyText ==
  <<"T", "h", "a", "n", "k", " ", "y", "o", "u", ".">>

\* DraftResponseAgent.fallback_config
DraftFallbackConfig == Put(BaseFallbackConfig, "reply_draft", FallbackReplyText)

FallbackConfig(a) == IF a = "draft" THEN DraftFallbackConfig ELSE BaseFallbackConfig

\* ------------------------------------------------------------- exceptions

Exc(type, msg) == [type |-> type, msg |-> msg]

NoExc == Exc("none", "")

\* except (AuthenticationError, RateLimitError, OpenAIError)
ProviderErrors == {"AuthenticationError", "RateLimitError", "OpenAIError"}

IsProviderError(e) == e.type \in ProviderErrors

\* -------------------------------------------------------- inputs, replies

Sender == <<"a", "@", "b">>

\* "double fee"
MsgA == <<"d", "o", "u", "b", "l", "e", " ", "f", "e", "e">>

\* "double\nfee\r " : sanitizes to MsgA
MsgANewline == <<"d", "o", "u", "b", "l", "e", "\n", "f", "e", "e", "\r", " ">>

\* "late pickup"
MsgB == <<"l", "a", "t", "e", " ", "p", "i", "c", "k", "u", "p">>

\* "help"
MsgShort == <<"h", "e", "l", "p">>

\* "hi" followed by nine blanks: ten characters or more only before trimming
MsgPadded == <<"h", "i", " ", " ", " ", " ", " ", " ", " ", " ", " ">>

Discovery == [product |-> "Discovery"]

ClassifyInputs ==
  { [sender |-> Sender, content |-> MsgA],
    [sender |-> Sender, content |-> MsgANewline, metadata |-> Discovery],
    [sender |-> Sender, content |-> MsgB, metadata |-> EmptyDict],
    [sender |-> Sender],
    [sender |-> <<>>, content |-> MsgA],
    [content |-> MsgA],
    [sender |-> Sender, content |-> <<>>],
    [sender |-> Sender, content |-> MsgShort],
    [sender |-> Sender, content |-> MsgPadded] }

BillingHigh ==
  [category |-> "Billing Support", priority |-> "High", intent |-> "Invoice Dispute",
   recommended_queue |-> "Finance Support", confidence |-> 95]

DispatchMedium ==
  [category |-> "Dispatch Communication", priority |-> "Medium",
   intent |-> "Schedule Inquiry", recommended_queue |-> "Dispatch Team",
   confidence |-> 90]

\* Classifications handed to the draft agent: a full one, the same with a low
\* confidence, one without confidence, the contract's fallback output, and two
\* that lack a required key.
DraftClassifications ==
  { BillingHigh,
    [BillingHigh EXCEPT !.confidence = 50],
    [category |-> "Billing Support", intent |-> "Invoice Dispute"],
    BaseFallbackConfig,
    [category |-> "Billing Support", confidence |-> 95],
    [intent |-> "Invoice Dispute", confidence |-> 95] }

DraftInputs ==
  { [sender |-> Sender, content |-> MsgA, classification |-> c] :
      c \in DraftClassifications }
  \cup
  { [sender |-> Sender, content |-> MsgA],
    [sender |-> Sender, content |-> MsgShort, classification |-> BillingHigh],
    [sender |-> <<>>, content |-> MsgA, classification |-> BillingHigh],
    [sender |-> Sender, classification |-> BillingHigh] }

GenericInputs ==
  { [sender |-> Sender, content |-> MsgA],
    [sender |-> Sender, content |-> <<>>],
    [content |-> MsgA] }

InputsOf(a) ==
  CASE a = "classify" -> ClassifyInputs
    [] a = "draft" -> DraftInputs
    [] OTHER -> GenericInputs

\* A model reply is its text as far as _parse_reply reads it: whether it starts
\* with "{", whether json.loads accepts it, and the object it then holds.
JsonReply(data) == [brace |-> TRUE, json |-> TRUE, data |-> data]

PlainTextReply == [brace |-> FALSE, json |-> FALSE, data |-> EmptyDict]

BrokenJsonReply == [brace |-> TRUE, json |-> FALSE, data |-> EmptyDict]

ClassifyReplies ==
  { JsonReply(BillingHigh),
    JsonReply(DispatchMedium),
    JsonReply([BillingHigh EXCEPT !.confidence = 50]),
    JsonReply([BillingHigh EXCEPT !.confidence = 150]),
    JsonReply([BillingHigh EXCEPT !.category = "Not A Real Category"]),
    JsonReply([BillingHigh EXCEPT !.priority = "Urgent"]),
    JsonReply([BillingHigh EXCEPT !.recommended_queue = "Nobody"]),
    JsonReply([priority |-> "High", intent |-> "Invoice Dispute",
               recommended_queue |-> "Finance Support", confidence |-> 90]),
    PlainTextReply,
    BrokenJsonReply }

\* Reply texts of the draft model: " Ok ", "Ok." and the empty text
DraftReplies == { <<" ", "O", "k", " ">>, <<"O", "k", ".">>, <<>> }

RepliesOf(a) == IF a = "draft" THEN DraftReplies ELSE ClassifyReplies

\* What client.chat.completions.create does: it answers with a reply text or
\* raises one of the provider's errors.
GatewayResponses(a) ==
  { [kind |-> "reply", reply |-> r, type |-> "none"] : r \in RepliesOf(a) }
  \cup
  { [kind |-> "error", reply |-> <<>>, type |-> t] : t \in ProviderErrors }

\* ------------------------------------------------- results of a function

\* A Python call returns a value or raises an exception.
Ok(v) == [ok |-> TRUE, value |-> v, exc |-> NoExc]

Raise(e) == [ok |-> FALSE, value |-> EmptyDict, exc |-> e]

\* ------------------------------------------------------------------ Timer

\* The attributes of a Timer object after __enter__ ...
TimerEnter == {"start"}

\* ... and after __exit__.
TimerExit(t) == t \cup {"end", "latency_ms"}

\* Reading timer.latency_ms raises AttributeError unless the attribute is set.
HasLatency(t) == "latency_ms" \in t

LatencyError == Exc("AttributeError", "'Timer' object has no attribute 'latency_ms'")

\* ------------------------------------------------------------ BaseAgent

\* _validate_input without its check of the sender
ValidateInputContentOnly(input_data) ==
  IF Falsy(input_data, "content")
  THEN Exc("ValueError", "Missing required field: content")
  ELSE NoExc

\* BaseAgent._validate_input: the exception it raises, NoExc when it returns
ValidateInput(input_data) ==
  IF Falsy(input_data, "content")
  THEN Exc("ValueError", "Missing required field: content")
  ELSE IF Falsy(input_data, "sender")
  THEN Exc("ValueError", "Missing required field: sender")
  ELSE NoExc

\* min(max(result.get("confidence", 0.0), 0.0), 1.0)
ClampConfidence(result) == Min(Max(Get(result, "confidence", 0), 0), 100)

\* result.update({...}) of execute, with the latency read from the timer
Stamped(a, result, latency) ==
  LET r1 == Put(result, "_agent", AgentName(a))
      r2 == Put(r1, "_version", AgentVersion(a))
      r3 == Put(r2, "_latency_ms", latency)
      r4 == Put(r3, "fallback_used", Get(result, "fallback_used", FALSE))
  IN  Put(r4, "error", Get(result, "error", None))

\* BaseAgent.fallback
Fallback(a, reason, latency) ==
  [category |-> FallbackConfig(a)["category"],
   priority |-> FallbackConfig(a)["priority"],
   intent |-> FallbackConfig(a)["intent"],
   recommended_queue |-> FallbackConfig(a)["recommended_queue"],
   confidence |-> FallbackConfig(a)["confidence"],
   fallback_used |-> TRUE,
   error |-> reason,
   _agent |-> AgentName(a),
   _version |-> AgentVersion(a),
   _latency_ms |-> latency]

\* ----------------------------------------------------------- observability

\* A logger call of BaseAgent: its level and its message
LogLine(level, message) == [event_type |-> "log", level |-> level, message |-> message]

\* logger.exception(f"[{self.name}] Unhandled error during execution")
UnhandledErrorLine(a) ==
  LogLine("ERROR", "[" \o AgentName(a) \o "] Unhandled error during execution")

\* logger.warning(f"[{self.name}] Using fallback due to: {reason}")
FallbackLine(a, reason) ==
  LogLine("WARNING", "[" \o AgentName(a) \o "] Using fallback due to: " \o reason)

\* log_agent_event: the payload it logs, without its timestamp and request id
LogAgentEvent(agent_name, input_data, output_data, fallback_used, error) ==
  [event_type |-> "agent_execution", agent |-> agent_name, input |-> input_data,
   output |-> output_data, fallback_used |-> fallback_used, error |-> error]

\* -------------------------------------------------- preprocess of the agents

ContentCheck(input_data, tooShort) ==
  IF Falsy(input_data, "content")
  THEN Exc("ValueError", "Missing message content")
  ELSE IF Len(Strip(input_data["content"])) < MinContentLen
  THEN Exc("ValueError", tooShort)
  ELSE NoExc

\* ClassificationAgent.preprocess
ClassifyPreprocess(input_data) ==
  ContentCheck(input_data, "Content too short for meaningful classification")

\* DraftResponseAgent.preprocess
DraftPreprocess(input_data) ==
  LET classification == Get(input_data, "classification", EmptyDict)
  IN  IF ~Has(classification, "category")
      THEN Exc("ValueError", "Missing classification field: category")
      ELSE IF ~Has(classification, "intent")
      THEN Exc("ValueError", "Missing classification field: intent")
      ELSE ContentCheck(input_data, "Content too short for meaningful response")

\* A preprocess that rejects nothing
AgentPreprocessAcceptsAll(a, input_data) == NoExc

AgentPreprocess(a, input_data) ==
  IF a = "draft" THEN DraftPreprocess(input_data) ELSE ClassifyPreprocess(input_data)

\* ------------------------------------------------------ ClassificationAgent

\* ClassificationAgent._parse_reply
ParseReply(reply) ==
  IF reply.brace /\ ~reply.json
  THEN Raise(Exc("ValueError", "Invalid LLM response: JSONDecodeError"))
  ELSE
    LET data == IF reply.brace THEN reply.data ELSE EmptyDict
        result ==
          [category |-> Get(data, "category", BaseFallbackConfig.category),
           priority |-> Get(data, "priority", BaseFallbackConfig.priority),
           intent |-> Get(data, "intent", BaseFallbackConfig.intent),
           recommended_queue |->
             Get(data, "recommended_queue", BaseFallbackConfig.recommended_queue),
           confidence |-> Get(data, "confidence", BaseFallbackConfig.confidence),
           fallback_used |-> FALSE,
           error |-> None]
    IN  IF result.category \notin CategoryType
        THEN Raise(Exc("ValueError", "Invalid LLM response: Invalid category"))
        ELSE IF result.priority \notin PriorityLevel
        THEN Raise(Exc("ValueError", "Invalid LLM response: Invalid priority"))
        ELSE IF result.recommended_queue \notin QueueType
        THEN Raise(Exc("ValueError", "Invalid LLM response: Invalid queue"))
        ELSE Ok(result)

\* ClassificationAgent._try_classify, given what the gateway call did
TryClassify(response) ==
  IF response.kind = "error"
  THEN Raise(Exc(response.type, "provider error"))
  ELSE ParseReply(response.reply)

\* ClassificationAgent._build_prompt: the values the template embeds
ClassifyPrompt(content, metadata) ==
  [content |-> content,
   product |-> Get(metadata, "product", "Unknown"),
   channel |-> Get(metadata, "channel", "unknown")]

\* ------------------------------------------------------- DraftResponseAgent

\* A tone chosen by the priority, not the category
InferToneByPriority(classification) ==
  IF Get(classification, "priority", "Medium") = "High"
  THEN "prompt and respectful"
  ELSE "neutral and helpful"

\* DraftResponseAgent._infer_tone
InferTone(classification) ==
  LET category == Get(classification, "category", "General Inquiry")
  IN  CASE category = "Billing Support" -> "reassuring and precise"
        [] category = "Sensor Alert" -> "calm and technically confident"
        [] category = "Dispatch Communication" -> "prompt and respectful"
        [] category = "Marketing" -> "brief and compliant"
        [] category = "General Inquiry" -> "neutral and helpful"
        [] OTHER -> "neutral and helpful"

\* DraftResponseAgent._build_prompt: the values the template embeds
DraftPrompt(content, classification, tone) ==
  [content |-> content,
   category |-> Get(classification, "category", None),
   intent |-> Get(classification, "intent", None),
   tone |-> tone,
   product |-> Get(Get(classification, "metadata", EmptyDict), "product", "Unknown")]

\* DraftResponseAgent._try_draft, given what the gateway call did
TryDraft(response, classification) ==
  IF response.kind = "error"
  THEN Raise(Exc(response.type, "provider error"))
  ELSE Ok([reply_draft |-> ProcessReply(response.reply),
           confidence |-> Get(classification, "confidence", DefaultDraftConfidence),
           fallback_used |-> FALSE,
           error |-> None,
           category |-> Get(classification, "category", DraftFallbackConfig.category),
           priority |-> Get(classification, "priority", DraftFallbackConfig.priority),
           intent |-> Get(classification, "intent", DraftFallbackConfig.intent),
           recommended_queue |->
             Get(classification, "recommended_queue",
                 DraftFallbackConfig.recommended_queue)])

\* --------------------------------------------------------- run, both agents

\* A cache key built from the content as given, not sanitized
CacheKeyRawContent(a, input_data) ==
  LET content == input_data["content"]
      classification == Get(input_data, "classification", EmptyDict)
  IN  IF a = "draft"
      THEN <<content, Get(classification, "category", None),
             Get(classification, "intent", None), PrimaryModel>>
      ELSE <<content, PrimaryModel>>

\* A cache key that names the model only
CacheKeyModelOnly(a, input_data) == <<PrimaryModel>>

\* cache_key of run
CacheKey(a, input_data) ==
  LET content == Sanitize(input_data["content"])
      classification == Get(input_data, "classification", EmptyDict)
  IN  IF a = "draft"
      THEN <<content, Get(classification, "category", None),
             Get(classification, "intent", None), PrimaryModel>>
      ELSE <<content, PrimaryModel>>

\* prompt of run
BuildPrompt(a, input_data) ==
  LET content == Sanitize(input_data["content"])
      classification == Get(input_data, "classification", EmptyDict)
  IN  IF a = "draft"
      THEN DraftPrompt(content, classification, InferTone(classification))
      ELSE ClassifyPrompt(content, Get(input_data, "metadata", EmptyDict))

\* _try_classify / _try_draft
TryModel(a, input_data, response) ==
  IF a = "draft"
  THEN TryDraft(response, input_data["classification"])
  ELSE TryClassify(response)

\* A threshold check that lets every confidence pass
ConfidenceNeverTooLow(result) == FALSE

\* result["confidence"] < self.confidence_threshold
ConfidenceTooLow(result) == result["confidence"] < ConfidenceThreshold

\* A tier of run whose fallback-model branch lacks the threshold check
TierUncheckedFallback(a, input_data, response, primary) ==
  LET tried == TryModel(a, input_data, response)
  IN  IF primary /\ tried.ok /\ ConfidenceTooLow(tried.value)
      THEN Raise(Exc("ValueError", "confidence too low"))
      ELSE tried

\* One tier of run: the call's result, then the threshold check.
\* `primary` tells which of the two raise statements applies.
Tier(a, input_data, response, primary) ==
  LET tried == TryModel(a, input_data, response)
      what == IF a = "draft" THEN "draft" ELSE "classification"
      What == IF a = "draft" THEN "Draft" ELSE "Classification"
  IN  IF tried.ok /\ ConfidenceTooLow(tried.value)
      THEN Raise(Exc("ValueError",
                     IF primary THEN What \o " confidence too low"
                     ELSE "Fallback " \o what \o " confidence too low"))
      ELSE tried

\* ---------------------------------------------------------------- ingestion

\* if payload.source not in ["gmail", "phone"]
IngestSources == {"gmail", "phone"}

\* The values of payload.source that requests carry
PayloadSources == IngestSources \cup {"invalid", ""}

\* A source check that lets every source through
AnySourceValid(source) == TRUE

ValidSource(source) == source \in IngestSources

\* ingest_from_gmail if payload.source == "gmail" else ingest_from_phone
IngestFunction(source) == IF source = "gmail" THEN "gmail" ELSE "phone"

\* GmailClient.mock_emails[0], TwilioClient.mock_voicemails[0]
GmailEmail ==
  [sender |-> "mock.sender@gmail.com", subject |-> "Invoice Issue",
   content |-> "Hi, I noticed a discrepancy in my last invoice for $200.",
   thread_id |-> "mock-thread-123", labels |-> <<"INBOX", "UNREAD">>,
   timestamp |-> "2025-07-10T12:00:00Z"]

TwilioVoicemail ==
  [sender |-> "+15551234567",
   content |-> "This is a message regarding my recent delivery issue.",
   call_sid |-> "mock-call-sid-456", transcription_confidence |-> 92,
   timestamp |-> "2025-07-10T12:00:00Z"]

\* fetch_latest_email / fetch_latest_voicemail: the first mock entry, or
\* ValueError on an empty inbox (the failure the tests inject)
ClientOutcomes(fn) ==
  IF fn = "gmail"
  THEN {Ok(GmailEmail), Raise(Exc("ValueError", "No emails available in mock inbox"))}
  ELSE {Ok(TwilioVoicemail),
        Raise(Exc("ValueError", "No voicemails available in mock inbox"))}

\* The message ingest_from_gmail and ingest_from_phone build
GmailMessage(email) ==
  [sender |-> email["sender"], content |-> email["content"],
   subject |-> Get(email, "subject", "(no subject)"), source |-> "gmail",
   metadata |-> [thread_id |-> Get(email, "thread_id", "mock-thread-123"),
                 labels |-> Get(email, "labels", <<"INBOX", "UNREAD">>),
                 timestamp |-> Get(email, "timestamp", "2025-07-10T12:00:00Z")]]

PhoneMessage(voicemail) ==
  [sender |-> voicemail["sender"], content |-> voicemail["content"],
   source |-> "phone",
   metadata |-> [call_sid |-> Get(voicemail, "call_sid", "mock-call-sid-456"),
                 transcription_confidence |->
                   Get(voicemail, "transcription_confidence", 92),
                 timestamp |-> Get(voicemail, "timestamp", "2025-07-10T12:00:00Z")]]

\* One run of the body of ingest_from_gmail or ingest_from_phone, given what the
\* client does when it is asked
IngestBody(fn, mock, fetched) ==
  LET what == IF fn = "gmail" THEN "Gmail" ELSE "Phone"
  IN  IF ~mock
      THEN Raise(Exc("IngestionError",
                     IF fn = "gmail"
                     THEN "Gmail integration is not implemented in this prototype."
                     ELSE "Phone ingestion is not implemented in this prototype."))
      ELSE IF fetched.ok
      THEN Ok(IF fn = "gmail" THEN GmailMessage(fetched.value)
              ELSE PhoneMessage(fetched.value))
      ELSE Raise(Exc("IngestionError", what \o " ingestion failed: " \o fetched.exc.msg))

\* What tenacity's @retry raises once stop_after_attempt(3) stops it: reraise is
\* not set, so the last attempt's exception is wrapped
RetryError == Exc("RetryError", "RetryError[<Future state=finished raised IngestionError>]")

\* classify_agent.set_metadata(...): neither BaseAgent nor ClassificationAgent
\* defines it
SetMetadataError ==
  Exc("AttributeError", "'ClassificationAgent' object has no attribute 'set_metadata'")

\* An HTTP response: the status and the detail of the HTTPException raised
HttpError(status, detail) == [status |-> status, detail |-> detail]

NoResponse == HttpError(0, "")

BadRequest == 400

ServerError == 500

\* A request not yet made.  op is "call" for a direct call of an ingestion
\* function and "POST /ingest" for the route; attempts are the runs of the
\* function body so far; ingested is what the decorated function gave its caller;
\* called are the collaborators the route handler called, in order.
NoRequest ==
  [op |-> "idle", source |-> "", mock |-> TRUE, pc |-> "idle", attempts |-> <<>>,
   ingested |-> [kind |-> "none", value |-> EmptyDict, exc |-> NoExc],
   called |-> <<>>, exc |-> NoExc, response |-> NoResponse,
   request_id |-> 0, payload |-> EmptyDict]

\* Bodies of POST /triage that pass the RawMessageInput schema
TriagePayloads ==
  { [sender |-> Sender, content |-> MsgA, metadata |-> EmptyDict],
    [sender |-> Sender, content |-> MsgB, metadata |-> Discovery],
    [sender |-> Sender, content |-> MsgShort, metadata |-> EmptyDict] }

\* The f-string prefix of the 500 detail of each route
FailureDetail(route) ==
  IF route = "POST /triage" THEN "Triage agent failed: "
  ELSE "Ingestion and triage failed: "

\* ------------------------------------------------------------------ cache

\* An entry that never expires
NeverExpired(stored_at, time) == FALSE

\* TTLCache: an entry stored at stored_at is valid while timer() < stored_at + ttl
Expired(stored_at, time) == ~(time < stored_at + CacheTtl)

\* cache_key in self.cache: the key is held and its entry has not expired
CacheHas(entries, times, key, time) ==
  Has(entries, key) /\ ~Expired(times[key], time)

\* The keys TTLCache.__setitem__ keeps: it drops the expired entries first.
\* (maxsize = 1000 is never reached by the few keys of a behaviour.)
LiveKeys(times, time) == {k \in DOMAIN times : ~Expired(times[k], time)}

\* self.cache[cache_key] = result: the entries afterwards ...
CacheStore(entries, times, key, value, time) ==
  [k \in LiveKeys(times, time) \cup {key} |-> IF k = key THEN value ELSE entries[k]]

\* ... and the times they were stored at
StoreTime(times, key, time) ==
  [k \in LiveKeys(times, time) \cup {key} |-> IF k = key THEN time ELSE times[k]]

\* The clock is read every half time-to-live.
TickStep == CacheTtl \div 2

\* ------------------------------------------------------------ text functions

\* n times the character c
Repeat(c, n) == [k \in 1..n |-> c]

\* Model replies handed to _process_reply: short ones and ones around the cap,
\* with and without blanks around them and a period at their end
ReplyLengths == (0..MaxOver) \cup ((MaxReplyLen - MaxOver)..(MaxReplyLen + MaxOver))

ReplyTexts ==
  { lead \o Repeat("a", n) \o tail :
      lead \in {<<>>, <<" ">>},
      n \in ReplyLengths,
      tail \in {<<>>, <<".">>, <<" ">>, <<" ", "b">>} }

\* A key a dict may or may not have
Optional(key, values) == {EmptyDict} \cup {key :> v : v \in values}

\* Contents handed to _sanitize: short ones and ones around the cap, with
\* line breaks and blanks at their ends and near the cut
ContentLengths == (0..MaxOver) \cup ((MaxContentLen - MaxOver)..(MaxContentLen + MaxOver))

ContentTexts ==
  { lead \o Repeat("a", n) \o tail :
      lead \in {<<>>, <<"\n">>},
      n \in ContentLengths,
      tail \in {<<>>, <<"\r">>, <<" ", "b">>, <<"\n", "b">>} }

\* Classifications handed to _infer_tone: each category, an unknown one and
\* none, with and without the other fields
ToneClassifications ==
  { category @@ priority @@ intent :
      category \in Optional("category", CategoryType \cup {"Spam"}),
      priority \in Optional("priority", PriorityLevel),
      intent \in Optional("intent", {"Invoice Dispute"}) }

NotApplied == [name |-> "none", arg |-> <<>>, value |-> <<>>]

\* ---------------------------------------------------------------- webhook

\* "Pickup late"
MsgPickup == <<"P", "i", "c", "k", "u", "p", " ", "l", "a", "t", "e">>

\* str.lower() on the characters the payloads use
LowerChar(c) ==
  CASE c = "P" -> "p"
    [] c = "G" -> "g"
    [] OTHER -> c

LowerText(s) == [k \in 1..Len(s) |-> LowerChar(s[k])]

\* str.lower() on the channel names the payloads use
LowerName(name) ==
  CASE name = "Phone" -> "phone"
    [] name = "GMAIL" -> "gmail"
    [] OTHER -> name

\* `word in text`
Contains(text, word) ==
  \E k \in 1..Len(text) :
    k + Len(word) - 1 <= Len(text) /\ SubSeq(text, k, k + Len(word) - 1) = word

\* A JSON value that is not a text: a number, null
JsonNumber(n) == [json |-> "number", value |-> n]

JsonNull == [json |-> "null", value |-> 0]

JsonString(s) == [json |-> "string", value |-> s]

\* float(v): a number converts, a string that spells none raises ValueError,
\* None raises TypeError
Float(v) ==
  IF v.json = "number" THEN Ok(v.value)
  ELSE IF v.json = "string"
  THEN Raise(Exc("ValueError", "could not convert string to float"))
  ELSE Raise(Exc("TypeError", "float() argument must be a string or a number"))

\* JSON objects posted to the webhook: with and without a channel, a sender
\* and a content under the keys of the three formats, and a transcription
\* confidence that is a number, null or a word
WebhookPayloads ==
  { channel @@ sender @@ content @@ confidence :
      channel \in Optional("channel", {"gmail", "Phone", "sms"}),
      sender \in Optional("from", {Sender}) \cup Optional("From", {Sender})
                   \cup Optional("sender", {Sender, <<>>}),
      content \in Optional("message", {MsgA}) \cup Optional("TranscriptionText", {MsgPickup})
                    \cup Optional("content", {MsgA}) \cup Optional("body", {<<>>}),
      confidence \in Optional("TranscriptionConfidence",
                               {JsonNumber(92), JsonNull, JsonString("high")}) }

\* Request bodies: a JSON object, a JSON array, or no JSON at all
WebhookBodies ==
  { [json |-> "object", payload |-> payload] : payload \in WebhookPayloads }
  \cup { [json |-> "array", payload |-> EmptyDict],
         [json |-> "malformed", payload |-> EmptyDict] }

\* payload.get(k1) or payload.get(k2) or ... or default
FirstTruthy(payload, keys, default) ==
  IF \A k \in 1..Len(keys) : Falsy(payload, keys[k])
  THEN default
  ELSE payload[keys[CHOOSE k \in 1..Len(keys) :
                      /\ ~Falsy(payload, keys[k])
                      /\ \A m \in 1..(k - 1) : Falsy(payload, keys[m])]]

\* The keys normalize_webhook_payload reads the sender and the content from
SenderKeys(channel) ==
  IF channel = "phone" THEN <<"From", "sender">> ELSE <<"from", "sender", "email">>

ContentKeys(channel) ==
  IF channel = "phone" THEN <<"TranscriptionText", "content">>
  ELSE <<"message", "content", "body">>

\* Lines 52-61: the product, inferred from the content when not given
InferProduct(payload, content) ==
  LET given == FirstTruthy(payload, <<"product", "source_product">>, "Unknown")
      content_lower == LowerText(content)
  IN  IF given # "Unknown" THEN given
      ELSE IF Contains(content_lower, <<"c", "o", "m", "p", "a", "c", "t", "o", "r">>)
      THEN "Pioneer"
      ELSE IF Contains(content_lower, <<"p", "i", "c", "k", "u", "p">>) THEN "Hauler"
      ELSE IF Contains(content_lower, <<"i", "n", "v", "o", "i", "c", "e">>)
      THEN "Discovery"
      ELSE "Unknown"

\* normalize_webhook_payload, without the timestamps
NormalizeWebhookPayload(body) ==
  IF body.json # "object"
  THEN Raise(Exc("AttributeError", "'list' object has no attribute 'get'"))
  ELSE
    LET payload == body.payload
        channel == LowerName(Get(payload, "channel", "webhook"))
        sender == FirstTruthy(payload, SenderKeys(channel), <<>>)
        content == FirstTruthy(payload, ContentKeys(channel), <<>>)
        confidence == Float(Get(payload, "TranscriptionConfidence", JsonNumber(92)))
    IN  IF channel = "phone" /\ ~confidence.ok
        THEN Raise(confidence.exc)
        ELSE IF sender = <<>>
        THEN Raise(Exc("ValueError", "Missing required field: sender"))
        ELSE IF content = <<>>
        THEN Raise(Exc("ValueError", "Missing required field: content"))
        ELSE Ok([sender |-> Strip(sender), content |-> Strip(content),
                 product |-> InferProduct(payload, content), channel |-> channel])

\* json.JSONDecodeError is a ValueError
IsValueError(e) == e.type \in {"ValueError", "JSONDecodeError"}

\* What handle_webhook ends with: an HTTPException or a ClassificationResult
WebhookError(status, detail) ==
  [kind |-> "http_error", status |-> status, detail |-> detail, result |-> EmptyDict]

WebhookResult(result) ==
  [kind |-> "result", status |-> 0, detail |-> "", result |-> result]

\* The ClassificationResult of lines 127-136, without classified_at
WebhookFallback(e) ==
  [category |-> "General Inquiry", priority |-> "Medium", intent |-> "Unknown",
   recommended_queue |-> "Customer Support", confidence |-> 0,
   fallback_used |-> TRUE, error |-> e.msg]

\* ClassificationAgent(): it raises when OPENAI_API_KEY is not set
MissingKeyError == Exc("EnvironmentError", "OPENAI_API_KEY not set")

\* The except clauses of handle_webhook, lines 122-136
WebhookExcept(e) ==
  IF IsValueError(e)
  THEN WebhookError(BadRequest, "Invalid payload: " \o e.msg)
  ELSE WebhookResult(WebhookFallback(e))

\* handle_webhook: what it calls, in order, and what it ends with.  Line 106
\* calls set_metadata, which no agent class defines, so lines 110-121 are
\* never reached.
HandleWebhook(body, key_set) ==
  LET normalized == NormalizeWebhookPayload(body)
  IN  IF body.json = "malformed"
      THEN [called |-> <<"req.json">>,
            outcome |-> WebhookExcept(Exc("JSONDecodeError", "Expecting value"))]
      ELSE IF ~normalized.ok
      THEN [called |-> <<"req.json", "normalize_webhook_payload">>,
            outcome |-> WebhookExcept(normalized.exc)]
      ELSE IF ~key_set
      THEN [called |-> <<"req.json", "normalize_webhook_payload", "ClassificationAgent">>,
            outcome |-> WebhookExcept(MissingKeyError)]
      ELSE [called |-> <<"req.json", "normalize_webhook_payload", "ClassificationAgent",
                         "classify_agent.set_metadata">>,
            outcome |-> WebhookExcept(SetMetadataError)]

\* ------------------------------------------------------------------ state

VARIABLES
  cur,        \* the invocation that holds the event loop, 0 when it is free
  op,         \* op[i]: "idle", "execute" (BaseAgent.execute) or "run" (await agent.run)
  agent,      \* agent[i]: the agent the invocation is made on
  input,      \* input[i]: its input_data
  pc,         \* pc[i]: the statement the invocation is at
  timer,      \* timer[i]: the attributes of execute's Timer object
  result,     \* result[i]: execute's local `result`
  exc,        \* exc[i]: the exception execute's except clause caught
  calls,      \* calls[i]: the gateway calls made so far, each a model and a prompt
  responses,  \* responses[i]: what the gateway did on each of them
  outcome,    \* outcome[i]: what the invocation returned or raised to its caller
  cache,      \* cache[a]: self.cache of the agent instance, key -> result
  log,        \* log[i]: what execute and fallback of invocation i wrote to the logger
  req,        \* req[r]: an ingestion call or a POST /ingest or /triage request
  now,        \* the reading of the cache's timer, in seconds
  inserted,   \* inserted[a]: key -> the time the entry of cache[a] was stored
  applied,    \* the last application of a function: its name, argument, value
  checked     \* checked[i]: the time at which run of invocation i looked in the cache

vars ==
  <<cur, op, agent, input, pc, timer, result, exc, calls, responses, outcome, cache,
    log, req, now, inserted, applied, checked>>

NoResult == [kind |-> "none", value |-> EmptyDict]

\* What calling an `async def` returns: a coroutine object, its body not started
Coroutine == [kind |-> "coroutine", value |-> EmptyDict]

Dict(d) == [kind |-> "dict", value |-> d]

Pending == [kind |-> "none", value |-> EmptyDict, exc |-> NoExc]

Returned(v) == [kind |-> "returned", value |-> v, exc |-> NoExc]

Raised(e) == [kind |-> "raised", value |-> EmptyDict, exc |-> e]

\* The value of timer.latency_ms once set
Elapsed == "elapsed"

Init ==
  /\ cur = 0
  /\ op = [i \in Inv |-> "idle"]
  /\ agent = [i \in Inv |-> "none"]
  /\ input = [i \in Inv |-> EmptyDict]
  /\ pc = [i \in Inv |-> "idle"]
  /\ timer = [i \in Inv |-> {}]
  /\ result = [i \in Inv |-> NoResult]
  /\ exc = [i \in Inv |-> NoExc]
  /\ calls = [i \in Inv |-> <<>>]
  /\ responses = [i \in Inv |-> <<>>]
  /\ outcome = [i \in Inv |-> Pending]
  /\ cache = [a \in AsyncAgents |-> EmptyDict]
  /\ log = [i \in Inv |-> <<>>]
  /\ req = [r \in Req |-> NoRequest]
  /\ now = 0
  /\ inserted = [a \in AsyncAgents |-> EmptyDict]
  /\ applied = NotApplied
  /\ checked = [i \in Inv |-> 0]

\* Invocations are numbered in the order they start.
CanStart(i) ==
  /\ cur = 0
  /\ op[i] = "idle"
  /\ IF i = 1 THEN TRUE ELSE op[i - 1] # "idle"

\* ------------------------------------------------------- BaseAgent.execute

\* execute is called: _validate_input, then the Timer is entered
Execute(i) ==
  /\ CanStart(i)
  /\ \E a \in Agents : \E input_data \in InputsOf(a) :
       LET invalid == ValidateInput(input_data)
       IN  /\ op' = [op EXCEPT ![i] = "execute"]
           /\ agent' = [agent EXCEPT ![i] = a]
           /\ input' = [input EXCEPT ![i] = input_data]
           /\ IF invalid # NoExc
              THEN /\ outcome' = [outcome EXCEPT ![i] = Raised(invalid)]
                   /\ pc' = [pc EXCEPT ![i] = "done"]
                   /\ UNCHANGED <<cur, timer>>
              ELSE /\ timer' = [timer EXCEPT ![i] = TimerEnter]
                   /\ pc' = [pc EXCEPT ![i] = "preprocess"]
                   /\ cur' = i
                   /\ UNCHANGED outcome
  /\ UNCHANGED <<result, exc, calls, responses, cache, log, req,
                 now, inserted, applied, checked>>

\* The hooks of the generic agent may succeed or raise.
HookError == Exc("RuntimeError", "hook failed")

\* A preprocess hook that lets every input through
PreprocessAcceptsAll(a, input_data) == {NoExc}

PreprocessOutcomes(a, input_data) ==
  IF a = "generic" THEN {NoExc, HookError} ELSE {AgentPreprocess(a, input_data)}

\* self.preprocess(input_data)
Preprocess(i) ==
  /\ cur = i
  /\ pc[i] = "preprocess"
  /\ \E e \in PreprocessOutcomes(agent[i], input[i]) :
       IF e = NoExc
       THEN /\ pc' = [pc EXCEPT ![i] = "run"]
            /\ UNCHANGED exc
       ELSE /\ pc' = [pc EXCEPT ![i] = "except"]
            /\ exc' = [exc EXCEPT ![i] = e]
  /\ UNCHANGED <<cur, op, agent, input, timer, result, calls, responses, outcome, cache,
               log, req,
                 now, inserted, applied, checked>>

\* What a synchronous run of the generic agent may return or raise
GenericRunOutcomes ==
  { Ok([BillingHigh EXCEPT !.confidence = c]) : c \in {95, 150, 0 - 20} }
  \cup {Raise(HookError)}

\* self.run(input_data) as execute calls it: run of the two agents is `async def`,
\* so the call returns a coroutine object and runs nothing of run's body
RunCall(a) == IF a \in AsyncAgents THEN {Ok(Coroutine)} ELSE
  { IF r.ok THEN Ok(Dict(r.value)) ELSE r : r \in GenericRunOutcomes }

\* result = self.run(input_data)
CallRun(i) ==
  /\ cur = i
  /\ pc[i] = "run"
  /\ \E r \in RunCall(agent[i]) :
       IF r.ok
       THEN /\ result' = [result EXCEPT ![i] = r.value]
            /\ pc' = [pc EXCEPT ![i] = "postprocess"]
            /\ UNCHANGED exc
       ELSE /\ pc' = [pc EXCEPT ![i] = "except"]
            /\ exc' = [exc EXCEPT ![i] = r.exc]
            /\ UNCHANGED result
  /\ UNCHANGED <<cur, op, agent, input, timer, calls, responses, outcome, cache, log, req,
                 now, inserted, applied, checked>>

\* BaseAgent.postprocess is a no-op, which neither agent overrides
PostprocessOutcomes(a) == IF a = "generic" THEN {NoExc, HookError} ELSE {NoExc}

\* self.postprocess(result)
Postprocess(i) ==
  /\ cur = i
  /\ pc[i] = "postprocess"
  /\ \E e \in PostprocessOutcomes(agent[i]) :
       IF e = NoExc
       THEN /\ pc' = [pc EXCEPT ![i] = "clamp"]
            /\ UNCHANGED exc
       ELSE /\ pc' = [pc EXCEPT ![i] = "except"]
            /\ exc' = [exc EXCEPT ![i] = e]
  /\ UNCHANGED <<cur, op, agent, input, timer, result, calls, responses, outcome, cache,
               log, req,
                 now, inserted, applied, checked>>

CoroutineError == Exc("AttributeError", "'coroutine' object has no attribute 'get'")

\* result["confidence"] = min(max(result.get("confidence", 0.0), 0.0), 1.0)
Clamp(i) ==
  /\ cur = i
  /\ pc[i] = "clamp"
  /\ IF result[i].kind = "dict"
     THEN /\ result' = [result EXCEPT ![i] =
                          Dict(Put(@.value, "confidence", ClampConfidence(@.value)))]
          /\ pc' = [pc EXCEPT ![i] = "stamp"]
          /\ UNCHANGED exc
     ELSE /\ pc' = [pc EXCEPT ![i] = "except"]
          /\ exc' = [exc EXCEPT ![i] = CoroutineError]
          /\ UNCHANGED result
  /\ UNCHANGED <<cur, op, agent, input, timer, calls, responses, outcome, cache, log, req,
                 now, inserted, applied, checked>>

\* result.update({... "_latency_ms": timer.latency_ms ...}); return result
Stamp(i) ==
  /\ cur = i
  /\ pc[i] = "stamp"
  /\ IF HasLatency(timer[i])
     THEN /\ outcome' = [outcome EXCEPT ![i] =
                           Returned(Stamped(agent[i], result[i].value, Elapsed))]
          /\ timer' = [timer EXCEPT ![i] = TimerExit(@)]
          /\ pc' = [pc EXCEPT ![i] = "done"]
          /\ cur' = 0
          /\ UNCHANGED exc
     ELSE /\ pc' = [pc EXCEPT ![i] = "except"]
          /\ exc' = [exc EXCEPT ![i] = LatencyError]
          /\ UNCHANGED <<cur, timer, outcome>>
  /\ UNCHANGED <<op, agent, input, result, calls, responses, cache, log, req,
                 now, inserted, applied, checked>>

\* except Exception as e: logger.exception(...); return self.fallback(str(e),
\* timer.latency_ms).  The arguments are evaluated before fallback is entered, so
\* an exception raised by them leaves execute; the Timer exits either way.
Except(i) ==
  /\ cur = i
  /\ pc[i] = "except"
  /\ outcome' = [outcome EXCEPT ![i] =
                   IF HasLatency(timer[i])
                   THEN Returned(Fallback(agent[i], exc[i].msg, Elapsed))
                   ELSE Raised(LatencyError)]
  /\ log' = [log EXCEPT ![i] =
                IF HasLatency(timer[i])
                THEN @ \o <<UnhandledErrorLine(agent[i]), FallbackLine(agent[i], exc[i].msg)>>
                ELSE Append(@, UnhandledErrorLine(agent[i]))]
  /\ timer' = [timer EXCEPT ![i] = TimerExit(@)]
  /\ pc' = [pc EXCEPT ![i] = "done"]
  /\ cur' = 0
  /\ UNCHANGED <<op, agent, input, result, exc, calls, responses, cache, req,
                 now, inserted, applied, checked>>

\* ------------------------------------------------ run of the two agents

\* The inputs run is awaited on: those the contract lets through to it
RunInputs(a) ==
  { input_data \in InputsOf(a) :
      ValidateInput(input_data) = NoExc /\ AgentPreprocess(a, input_data) = NoExc }

\* A gateway call that ignores the model it is given
GatewayCallPrimaryOnly(model, prompt) == [model |-> PrimaryModel, prompt |-> prompt]

\* client.chat.completions.create(model=model, messages=[..., prompt], ...)
GatewayCall(model, prompt) == [model |-> model, prompt |-> prompt]

\* await agent.run(input_data), up to its first suspension: the cache check,
\* then on a miss the prompt and the primary-model call
Run(i) ==
  /\ CanStart(i)
  /\ \E a \in AsyncAgents : \E input_data \in RunInputs(a) :
       LET cache_key == CacheKey(a, input_data)
       IN  /\ op' = [op EXCEPT ![i] = "run"]
           /\ agent' = [agent EXCEPT ![i] = a]
           /\ input' = [input EXCEPT ![i] = input_data]
           /\ IF CacheHas(cache[a], inserted[a], cache_key, now)
              THEN /\ outcome' = [outcome EXCEPT ![i] = Returned(cache[a][cache_key])]
                   /\ pc' = [pc EXCEPT ![i] = "done"]
                   /\ UNCHANGED calls
              ELSE /\ calls' = [calls EXCEPT ![i] =
                                  <<GatewayCall(PrimaryModel, BuildPrompt(a, input_data))>>]
                   /\ pc' = [pc EXCEPT ![i] = "await_primary"]
                   /\ UNCHANGED outcome
  /\ checked' = [checked EXCEPT ![i] = now]
  /\ UNCHANGED <<cur, timer, result, exc, responses, cache, log, req,
                 now, inserted, applied>>

\* The primary-model call ends: lines 71-78 of run, up to the return, the raise
\* or the fallback-model call
PrimaryReply(i) ==
  /\ cur = 0
  /\ pc[i] = "await_primary"
  /\ \E response \in GatewayResponses(agent[i]) :
       LET a == agent[i]
           tier == Tier(a, input[i], response, TRUE)
       IN  /\ responses' = [responses EXCEPT ![i] = Append(@, response)]
           /\ IF tier.ok
              THEN /\ cache' = [cache EXCEPT ![a] =
                                  CacheStore(@, inserted[a], CacheKey(a, input[i]),
                                             tier.value, now)]
                   /\ inserted' = [inserted EXCEPT ![a] =
                                     StoreTime(@, CacheKey(a, input[i]), now)]
                   /\ outcome' = [outcome EXCEPT ![i] = Returned(tier.value)]
                   /\ pc' = [pc EXCEPT ![i] = "done"]
                   /\ UNCHANGED calls
              ELSE IF IsProviderError(tier.exc)
              THEN /\ calls' = [calls EXCEPT ![i] =
                                  Append(@, GatewayCall(FallbackModel,
                                                        BuildPrompt(a, input[i])))]
                   /\ pc' = [pc EXCEPT ![i] = "await_fallback"]
                   /\ UNCHANGED <<cache, inserted, outcome>>
              ELSE /\ outcome' = [outcome EXCEPT ![i] = Raised(tier.exc)]
                   /\ pc' = [pc EXCEPT ![i] = "done"]
                   /\ UNCHANGED <<cache, inserted, calls>>
  /\ UNCHANGED <<cur, op, agent, input, timer, result, exc, log, req, now, applied, checked>>

\* A fallback tier that returns its result without storing it
FallbackReplyNotCached(i) ==
  /\ cur = 0
  /\ pc[i] = "await_fallback"
  /\ \E response \in GatewayResponses(agent[i]) :
       LET tier == Tier(agent[i], input[i], response, FALSE)
       IN  /\ responses' = [responses EXCEPT ![i] = Append(@, response)]
           /\ outcome' = [outcome EXCEPT ![i] =
                            IF tier.ok THEN Returned(tier.value) ELSE Raised(tier.exc)]
           /\ pc' = [pc EXCEPT ![i] = "done"]
  /\ UNCHANGED <<cur, op, agent, input, timer, result, exc, calls, log, req, now,
                 applied, checked, cache, inserted>>

\* The fallback-model call ends: lines 80-87 of run
FallbackReply(i) ==
  /\ cur = 0
  /\ pc[i] = "await_fallback"
  /\ \E response \in GatewayResponses(agent[i]) :
       LET a == agent[i]
           tier == Tier(a, input[i], response, FALSE)
       IN  /\ responses' = [responses EXCEPT ![i] = Append(@, response)]
           /\ IF tier.ok
              THEN /\ cache' = [cache EXCEPT ![a] =
                                  CacheStore(@, inserted[a], CacheKey(a, input[i]),
                                             tier.value, now)]
                   /\ inserted' = [inserted EXCEPT ![a] =
                                     StoreTime(@, CacheKey(a, input[i]), now)]
                   /\ outcome' = [outcome EXCEPT ![i] = Returned(tier.value)]
              ELSE /\ outcome' = [outcome EXCEPT ![i] = Raised(tier.exc)]
                   /\ UNCHANGED <<cache, inserted>>
           /\ pc' = [pc EXCEPT ![i] = "done"]
  /\ UNCHANGED <<cur, op, agent, input, timer, result, exc, calls, log, req, now,
                 applied, checked>>

\* ------------------------------------------------------------------ clock

\* Time passes
Tick ==
  /\ now + TickStep <= MaxTicks * TickStep
  /\ now' = now + TickStep
  /\ UNCHANGED <<cur, op, agent, input, pc, timer, result, exc, calls, responses,
                 outcome, cache, log, req, inserted, applied, checked>>

\* ------------------------------------------------------------ text functions

\* self._process_reply(reply)
ApplyProcessReply ==
  /\ \E reply \in ReplyTexts :
       applied' = [name |-> "_process_reply", arg |-> reply, value |-> ProcessReply(reply)]
  /\ UNCHANGED <<cur, op, agent, input, pc, timer, result, exc, calls, responses,
                 outcome, cache, log, req, now, inserted, checked>>

\* self._sanitize(text)
ApplySanitize ==
  /\ \E text \in ContentTexts :
       applied' = [name |-> "_sanitize", arg |-> text, value |-> Sanitize(text)]
  /\ UNCHANGED <<cur, op, agent, input, pc, timer, result, exc, calls, responses,
                 outcome, cache, log, req, now, inserted, checked>>

\* self._infer_tone(classification)
ApplyInferTone ==
  /\ \E classification \in ToneClassifications :
       applied' = [name |-> "_infer_tone", arg |-> classification,
                   value |-> InferTone(classification)]
  /\ UNCHANGED <<cur, op, agent, input, pc, timer, result, exc, calls, responses,
                 outcome, cache, log, req, now, inserted, checked>>

\* await handle_webhook(req)
ApplyHandleWebhook ==
  /\ \E body \in WebhookBodies : \E key_set \in BOOLEAN :
       applied' = [name |-> "handle_webhook",
                   arg |-> [body |-> body, key_set |-> key_set],
                   value |-> HandleWebhook(body, key_set)]
  /\ UNCHANGED <<cur, op, agent, input, pc, timer, result, exc, calls, responses,
                 outcome, cache, log, req, now, inserted, checked>>

\* -------------------------------------------- ingestion and POST /ingest

\* Neither an ingestion function nor the handler up to its first agent call
\* suspends, so requests run one after the other.
CanStartRequest(r) ==
  /\ req[r].pc = "idle"
  /\ IF r = 1 THEN TRUE ELSE req[r - 1].pc = "done"

\* ingest_from_gmail(mock) or ingest_from_phone(mock) is called directly
IngestCall(r) ==
  /\ CanStartRequest(r)
  /\ \E source \in IngestSources : \E mock \in BOOLEAN :
       req' = [req EXCEPT ![r] =
                 [@ EXCEPT !.op = "call", !.source = source, !.mock = mock,
                           !.pc = "attempt"]]
  /\ UNCHANGED <<cur, op, agent, input, pc, timer, result, exc, calls, responses,
                 outcome, cache, log, now, inserted, applied, checked>>

\* ingest_message, lines 77-91: the source check, then the ingestion function
\* is called
PostIngest(r) ==
  /\ CanStartRequest(r)
  /\ \E source \in PayloadSources : \E mock \in BOOLEAN :
       req' = [req EXCEPT ![r] =
                 IF ~ValidSource(source)
                 THEN [@ EXCEPT !.op = "POST /ingest", !.source = source,
                                !.mock = mock, !.pc = "done", !.request_id = r,
                                !.response =
                                  HttpError(BadRequest,
                                            "Invalid source. Must be 'gmail' or 'phone'.")]
                 ELSE [@ EXCEPT !.op = "POST /ingest", !.source = source,
                                !.mock = mock, !.pc = "attempt", !.request_id = r,
                                !.called =
                                  <<"ingest_from_" \o IngestFunction(source)>>]]
  /\ UNCHANGED <<cur, op, agent, input, pc, timer, result, exc, calls, responses,
                 outcome, cache, log, now, inserted, applied, checked>>

\* One attempt of the decorated function: its body runs; a result is returned,
\* an exception is retried until the third attempt and then wrapped
Attempt(r) ==
  /\ req[r].pc = "attempt"
  /\ \E fetched \in ClientOutcomes(IngestFunction(req[r].source)) :
       LET body == IngestBody(IngestFunction(req[r].source), req[r].mock, fetched)
           attempts == Append(req[r].attempts, body)
           route == req[r].op = "POST /ingest"
       IN  req' = [req EXCEPT ![r] =
                     IF body.ok
                     THEN [@ EXCEPT !.attempts = attempts,
                                    !.ingested = Returned(body.value),
                                    !.pc = IF route THEN "classify" ELSE "done"]
                     ELSE IF Len(attempts) >= MaxAttempts
                     THEN [@ EXCEPT !.attempts = attempts,
                                    !.ingested = Raised(RetryError),
                                    !.exc = IF route THEN RetryError ELSE NoExc,
                                    !.pc = IF route THEN "except" ELSE "done"]
                     ELSE [@ EXCEPT !.attempts = attempts]]
  /\ UNCHANGED <<cur, op, agent, input, pc, timer, result, exc, calls, responses,
                 outcome, cache, log, now, inserted, applied, checked>>

\* triage_message, lines 159-162: the request id the middleware gave the
\* request is read and the try block entered
PostTriage(r) ==
  /\ CanStartRequest(r)
  /\ \E payload \in TriagePayloads :
       req' = [req EXCEPT ![r] =
                 [@ EXCEPT !.op = "POST /triage", !.payload = payload,
                           !.request_id = r, !.pc = "classify"]]
  /\ UNCHANGED <<cur, op, agent, input, pc, timer, result, exc, calls, responses,
                 outcome, cache, log, now, inserted, applied, checked>>

\* ingest_message, line 94, and triage_message, line 164:
\* classify_agent.set_metadata(...) raises, so the handler reaches neither
\* execute call
SetMetadata(r) ==
  /\ req[r].pc = "classify"
  /\ req' = [req EXCEPT ![r] =
               [@ EXCEPT !.called = Append(@, "classify_agent.set_metadata"),
                         !.exc = SetMetadataError,
                         !.pc = "except"]]
  /\ UNCHANGED <<cur, op, agent, input, pc, timer, result, exc, calls, responses,
                 outcome, cache, log, now, inserted, applied, checked>>

\* ingest_message, lines 116-118, and triage_message, lines 186-188:
\* except Exception -> HTTPException(500)
RouteExcept(r) ==
  /\ req[r].pc = "except"
  /\ req' = [req EXCEPT ![r] =
               [@ EXCEPT !.response =
                           HttpError(ServerError,
                                     FailureDetail(req[r].op) \o req[r].exc.msg),
                         !.pc = "done"]]
  /\ UNCHANGED <<cur, op, agent, input, pc, timer, result, exc, calls, responses,
                 outcome, cache, log, now, inserted, applied, checked>>

\* ------------------------------------------------------------ specification

Next ==
  \E i \in Inv :
    \/ Execute(i)
    \/ Preprocess(i)
    \/ CallRun(i)
    \/ Postprocess(i)
    \/ Clamp(i)
    \/ Stamp(i)
    \/ Except(i)
    \/ Run(i)
    \/ PrimaryReply(i)
    \/ FallbackReply(i)

Spec == Init /\ [][Next]_vars

\* The event loop runs a started execute to its end: none of its steps waits.
\* Nothing bounds the wait for the gateway, and callers start invocations as
\* they please, so neither is fair.
ExecuteStep(i) ==
  \/ Preprocess(i)
  \/ CallRun(i)
  \/ Postprocess(i)
  \/ Clamp(i)
  \/ Stamp(i)
  \/ Except(i)

FairSpec == Init /\ [][Next]_vars /\ \A i \in Inv : WF_vars(ExecuteStep(i))

IngestNext ==
  \E r \in Req :
    \/ IngestCall(r)
    \/ PostIngest(r)
    \/ PostTriage(r)
    \/ Attempt(r)
    \/ SetMetadata(r)
    \/ RouteExcept(r)

IngestSpec == Init /\ [][IngestNext]_vars

\* Awaited runs while time passes
TtlNext ==
  \/ \E i \in Inv :
       \/ Run(i)
       \/ PrimaryReply(i)
       \/ FallbackReply(i)
  \/ Tick

TtlSpec == Init /\ [][TtlNext]_vars

TextNext ==
  \/ ApplyProcessReply
  \/ ApplySanitize
  \/ ApplyInferTone

WebhookNext == ApplyHandleWebhook

WebhookSpec == Init /\ [][WebhookNext]_vars

TextSpec == Init /\ [][TextNext]_vars

\* ----------------------------------------------------- reading a behaviour

Done(i) == pc[i] = "done"

\* The input passes _validate_input and the agent's preprocess.
PassesContract(i) ==
  /\ ValidateInput(input[i]) = NoExc
  /\ agent[i] \in AsyncAgents => AgentPreprocess(agent[i], input[i]) = NoExc

ReturnedOutput(i) == outcome[i].kind = "returned"

\* The gateway calls of invocation i made with the fallback model
FallbackModelCalls(i) == {k \in 1..Len(calls[i]) : calls[i][k].model = FallbackModel}

\* What the k-th gateway answer of invocation i parses to
Tried(i, k) == TryModel(agent[i], input[i], responses[i][k])

\* The routing fields and the confidence of a result
SameAnswer(x, y) ==
  /\ x["category"] = y["category"]
  /\ x["priority"] = y["priority"]
  /\ x["intent"] = y["intent"]
  /\ x["recommended_queue"] = y["recommended_queue"]
  /\ x["confidence"] = y["confidence"]

NotFallback(d) == Get(d, "fallback_used", FALSE) = FALSE /\ Get(d, "error", None) = None

\* The standard fallback shape, as the specification words it
StandardFallback(d, reason) ==
  /\ d["category"] = "General Inquiry"
  /\ d["priority"] = "Medium"
  /\ d["intent"] = "Unknown"
  /\ d["recommended_queue"] = "Customer Support"
  /\ d["confidence"] = 0
  /\ d["fallback_used"] = TRUE
  /\ d["error"] = reason

\* -------------------------------------------------------------- claims

\* C1: every execute on an input that passes the field validation returns an
\* output and never raises, whatever preprocess, run and postprocess do.
C1_ExecuteNeverRaises ==
  \A i \in Inv :
    (op[i] = "execute" /\ Done(i) /\ ValidateInput(input[i]) = NoExc)
      => ReturnedOutput(i)

\* C2: when the primary-model reply parses but its confidence is below the
\* threshold, run makes exactly one gateway call with the fallback model, on the
\* same prompt, before the invocation ends.
C2_LowConfidenceRetriesOnFallbackModel ==
  \A i \in Inv :
    ( /\ op[i] = "run"
      /\ Done(i)
      /\ Len(responses[i]) >= 1
      /\ Tried(i, 1).ok
      /\ Tried(i, 1).value["confidence"] < ConfidenceThreshold )
      => /\ Cardinality(FallbackModelCalls(i)) = 1
         /\ Len(calls[i]) = 2
         /\ calls[i][2].prompt = calls[i][1].prompt

\* A reply that is a parse or schema error in the specification's sense: not a
\* JSON object, or a category, priority or queue outside its enumeration
SchemaError(reply) ==
  \/ ~reply.brace
  \/ ~reply.json
  \/ Has(reply.data, "category") /\ reply.data["category"] \notin CategoryType
  \/ Has(reply.data, "priority") /\ reply.data["priority"] \notin PriorityLevel
  \/ /\ Has(reply.data, "recommended_queue")
     /\ reply.data["recommended_queue"] \notin QueueType

\* C3: a primary-model reply that is a parse or schema error is rejected and
\* triggers exactly one fallback-model call, as a provider error does.
C3_SchemaErrorRetriesOnFallbackModel ==
  \A i \in Inv :
    ( /\ op[i] = "run"
      /\ agent[i] = "classify"
      /\ Done(i)
      /\ Len(responses[i]) >= 1
      /\ responses[i][1].kind = "reply"
      /\ SchemaError(responses[i][1].reply) )
      => /\ ~ReturnedOutput(i) \/ Len(calls[i]) = 2
         /\ Cardinality(FallbackModelCalls(i)) = 1

\* The fallback-model retry after a provider error on the primary call, and its
\* result when the fallback-model reply is valid with confidence >= 0.7
RetriedAfterProviderError(i) ==
  (Len(responses[i]) >= 1 /\ responses[i][1].kind = "error")
    => /\ Len(calls[i]) = 2
       /\ calls[i][2] = GatewayCall(FallbackModel, calls[i][1].prompt)
       /\ ( /\ Len(responses[i]) = 2
            /\ Tried(i, 2).ok
            /\ Tried(i, 2).value["confidence"] >= ConfidenceThreshold )
            => /\ ReturnedOutput(i)
               /\ SameAnswer(outcome[i].value, Tried(i, 2).value)
               /\ NotFallback(outcome[i].value)

\* C4: for every provider error kind raised by the primary-model call the agent
\* calls the fallback model once with the same prompt, and when that reply is
\* valid with confidence >= 0.7 the output of execute is the fallback-model
\* result with fallback_used = false and error = null.
C4_ExecuteReturnsFallbackModelResult ==
  \A i \in Inv :
    (agent[i] \in AsyncAgents /\ Done(i) /\ PassesContract(i))
      => /\ RetriedAfterProviderError(i)
         /\ op[i] = "execute" => ReturnedOutput(i) /\ NotFallback(outcome[i].value)

\* C5: when both gateway tiers fail, so that run ends with an exception and
\* execute enters its except clause, execute returns exactly the standard
\* fallback shape with error set to the underlying failure reason.
C5_ExecuteReturnsStandardFallback ==
  \A i \in Inv :
    (op[i] = "execute" /\ agent[i] \in AsyncAgents /\ Done(i) /\ PassesContract(i)
       /\ exc[i] # NoExc)
      => /\ ReturnedOutput(i)
         /\ StandardFallback(outcome[i].value, exc[i].msg)

\* C6: on a cache miss where the primary model returns a valid reply with
\* confidence >= 0.7, ClassificationAgent.execute returns exactly the reply's
\* category, priority, intent, queue and confidence, fallback_used = false and
\* error = null, after exactly one gateway call.
C6_ExecuteReturnsPrimaryResult ==
  \A i \in Inv :
    (op[i] = "execute" /\ agent[i] = "classify" /\ Done(i) /\ PassesContract(i))
      => /\ ReturnedOutput(i)
         /\ ( /\ Len(responses[i]) >= 1
              /\ responses[i][1].kind = "reply"
              /\ DOMAIN responses[i][1].reply.data = DOMAIN BillingHigh
              /\ Tried(i, 1).ok
              /\ Tried(i, 1).value["confidence"] >= ConfidenceThreshold )
              => /\ Len(calls[i]) = 1
                 /\ SameAnswer(outcome[i].value, responses[i][1].reply.data)
                 /\ NotFallback(outcome[i].value)

\* C7: every output of execute has a confidence within [0, 1]: when run returned
\* a result and the hooks succeeded, execute returns it with its confidence
\* clamped, above 1 to 1.0 and below 0 to 0.0.
C7_ExecuteReturnsClampedConfidence ==
  \A i \in Inv :
    (op[i] = "execute" /\ Done(i) /\ result[i].kind = "dict" /\ exc[i] # HookError)
      => /\ ReturnedOutput(i)
         /\ outcome[i].value["confidence"] \in 0..100
         /\ outcome[i].value["confidence"] = result[i].value["confidence"]

\* C8: no result returned with fallback_used = false, by run from either model
\* tier or from the cache, or by execute, has a confidence below the threshold.
C8_NoLowConfidenceResult ==
  \A i \in Inv :
    (ReturnedOutput(i) /\ Get(outcome[i].value, "fallback_used", FALSE) = FALSE)
      => outcome[i].value["confidence"] >= ConfidenceThreshold

\* A fallback-model result returned after a provider error, then served again
\* from the cache
C8_Witness ==
  \E i, j \in Inv :
    /\ op[i] = "run" /\ ReturnedOutput(i) /\ Len(calls[i]) = 2
    /\ op[j] = "run" /\ ReturnedOutput(j) /\ calls[j] = <<>>
    /\ outcome[j].value = outcome[i].value

\* C9: execute on an input whose content or sender is missing or empty raises a
\* validation error to the caller, returns no output, and makes no gateway call.
C9_MissingFieldRaisesBeforeAnyCall ==
  \A i \in Inv :
    (op[i] = "execute" /\ (Falsy(input[i], "content") \/ Falsy(input[i], "sender")))
      => /\ Done(i)
         /\ outcome[i].kind = "raised"
         /\ outcome[i].exc.type = "ValueError"
         /\ outcome[i].exc.msg \in {"Missing required field: content",
                                    "Missing required field: sender"}
         /\ calls[i] = <<>>
         /\ timer[i] = {}

\* An execute rejected for its empty sender
C9_Witness ==
  \E i \in Inv :
    /\ op[i] = "execute"
    /\ Has(input[i], "sender") /\ input[i]["sender"] = <<>>
    /\ ~Falsy(input[i], "content")
    /\ outcome[i] = Raised(Exc("ValueError", "Missing required field: sender"))

\* C10: a validation failure found in preprocessing (content too short, a draft
\* input without classification category or intent) reaches the caller of
\* execute as that failure and is never turned into a fallback output.
C10_PreprocessRejectionSurfaces ==
  \A i \in Inv :
    ( /\ op[i] = "execute"
      /\ agent[i] \in AsyncAgents
      /\ Done(i)
      /\ ValidateInput(input[i]) = NoExc
      /\ AgentPreprocess(agent[i], input[i]) # NoExc )
      => outcome[i] = Raised(AgentPreprocess(agent[i], input[i]))

\* C11: in every agent invocation the gateway is called at most twice, first
\* with the primary model and then at most once with the fallback model; the
\* fallback-model call is made only after the primary call of the same
\* invocation has failed, and after a fallback-model answer, failed or not, the
\* invocation has ended without another call.
C11_AtMostOneCallPerModel ==
  \A i \in Inv :
    /\ Len(calls[i]) <= 2
    /\ Len(responses[i]) <= Len(calls[i])
    /\ Len(calls[i]) >= 1 => calls[i][1].model = PrimaryModel
    /\ Len(calls[i]) = 2
         => /\ calls[i][2].model = FallbackModel
            /\ Len(responses[i]) >= 1
            /\ ~Tried(i, 1).ok
    /\ Len(responses[i]) = 2 => Done(i)

\* A run whose fallback-model call failed too: it ended after its two calls
C11_Witness ==
  \E i \in Inv :
    /\ op[i] = "run"
    /\ Len(calls[i]) = 2
    /\ Len(responses[i]) = 2
    /\ ~Tried(i, 2).ok
    /\ Done(i)
    /\ outcome[i].kind = "raised"

\* Invocation i is a classification request that called the gateway
ClassifiedByGateway(i) ==
  op[i] = "run" /\ agent[i] = "classify" /\ Len(calls[i]) >= 1

\* C12: when a classification request has succeeded after a gateway call, a
\* request with the same sanitized content (and the same primary model) made
\* after it is answered with an output equal to the first in every field, and
\* makes no gateway call.  The two run one after the other: no other request
\* for that content was under way together with the first.
C12_IdenticalRequestServedFromCache ==
  [][ \A i, j \in Inv :
        ( /\ ClassifiedByGateway(i)
          /\ ReturnedOutput(i)
          /\ \A k \in Inv \ {i} :
                ClassifiedByGateway(k)
                  => Sanitize(input[k]["content"]) # Sanitize(input[i]["content"])
          /\ op[j] = "idle"
          /\ op'[j] = "run"
          /\ agent'[j] = "classify"
          /\ Sanitize(input'[j]["content"]) = Sanitize(input[i]["content"]) )
        => /\ outcome'[j] = Returned(outcome[i].value)
           /\ calls'[j] = <<>>
           /\ pc'[j] = "done" ]_vars

\* Two classification requests whose contents differ only in what sanitizing
\* removes: the first called the gateway, the second was served its result
C12_Witness ==
  \E i, j \in Inv :
    /\ i < j
    /\ op[i] = "run" /\ agent[i] = "classify" /\ ReturnedOutput(i)
    /\ op[j] = "run" /\ agent[j] = "classify" /\ ReturnedOutput(j)
    /\ input[i]["content"] # input[j]["content"]
    /\ Sanitize(input[i]["content"]) = Sanitize(input[j]["content"])
    /\ Len(calls[i]) >= 1
    /\ calls[j] = <<>>
    /\ outcome[j].value = outcome[i].value

\* C13: every DraftResponseAgent.execute that passes the field validation
\* returns an output with a reply_draft, and the fallback output that its
\* except clause builds carries the fallback configuration's reply string.
C13_DraftOutputCarriesReplyDraft ==
  \A i \in Inv :
    (op[i] = "execute" /\ agent[i] = "draft" /\ ValidateInput(input[i]) = NoExc)
      => /\ pc[i] = "except"
              => LET output == Fallback(agent[i], exc[i].msg, Elapsed)
                 IN  /\ Has(output, "reply_draft")
                     /\ output["reply_draft"] = DraftFallbackConfig["reply_draft"]
         /\ Done(i)
              => /\ ReturnedOutput(i)
                 /\ Has(outcome[i].value, "reply_draft")

\* The agent_execution events among the records of invocation i
AgentEvents(i) ==
  {k \in 1..Len(log[i]) : log[i][k].event_type = "agent_execution"}

\* C14: every execute that passes the field validation has, when it ends,
\* emitted exactly one agent_execution event, which carries the agent name, the
\* input, the output returned, its fallback flag and its error.
C14_OneAgentEventPerExecute ==
  \A i \in Inv :
    (op[i] = "execute" /\ Done(i) /\ ValidateInput(input[i]) = NoExc)
      => /\ Cardinality(AgentEvents(i)) = 1
         /\ \A k \in AgentEvents(i) :
              log[i][k] = LogAgentEvent(AgentName(agent[i]), input[i], outcome[i].value,
                                        Get(outcome[i].value, "fallback_used", FALSE),
                                        Get(outcome[i].value, "error", None))

\* C15: every execute that passes the field validation returns an output whose
\* fallback_used is true exactly when its except clause caught an exception, with
\* error set in that case and null otherwise.
C15_FallbackFlagMatchesPath ==
  \A i \in Inv :
    (op[i] = "execute" /\ Done(i) /\ ValidateInput(input[i]) = NoExc)
      => /\ ReturnedOutput(i)
         /\ outcome[i].value["fallback_used"] = (exc[i] # NoExc)
         /\ exc[i] # NoExc => outcome[i].value["error"] # None
         /\ exc[i] = NoExc => outcome[i].value["error"] = None

\* C16: every execute that passes the field validation returns an output, run's
\* result or the fallback output, stamped with the agent's name, the agent's
\* version and the latency the timer measured.
C16_OutputsCarryStamps ==
  \A i \in Inv :
    (op[i] = "execute" /\ Done(i) /\ ValidateInput(input[i]) = NoExc)
      => /\ ReturnedOutput(i)
         /\ outcome[i].value["_agent"] = AgentName(agent[i])
         /\ outcome[i].value["_version"] = AgentVersion(agent[i])
         /\ outcome[i].value["_latency_ms"] = Elapsed

\* C17: an invocation that waits for the gateway's answer to its primary-model
\* call eventually ends, whether or not the provider ever answers.
C17_AwaitingInvocationCompletes ==
  \A i \in Inv : (pc[i] = "await_primary") ~> Done(i)

\* The ingestion function of request r has ended with an exception
IngestionFailed(r) == req[r].ingested.kind = "raised"

\* C18: every failure of ingest_from_gmail and ingest_from_phone reaches the
\* caller as an IngestionError, and no ingestion call makes more than 3 attempts.
C18_IngestionFailureIsIngestionError ==
  \A r \in Req :
    /\ Len(req[r].attempts) <= 3
    /\ IngestionFailed(r) => req[r].ingested.exc.type = "IngestionError"

\* C19: a POST /ingest whose source is neither 'gmail' nor 'phone' is answered
\* 400 at once: no ingestion attempt is made and nothing is called, neither an
\* ingestion function nor an agent.
C19_InvalidSourceAnswers400 ==
  \A r \in Req :
    (req[r].op = "POST /ingest" /\ req[r].source \notin {"gmail", "phone"})
      => /\ req[r].pc = "done"
         /\ req[r].response.status = 400
         /\ req[r].attempts = <<>>
         /\ req[r].ingested.kind = "none"
         /\ req[r].called = <<>>

\* A request with the source "invalid" answered 400, after a request with a
\* valid source that did ingest
C19_Witness ==
  \E r, q \in Req :
    /\ req[r].op = "POST /ingest"
    /\ req[r].source = "invalid"
    /\ req[r].response.status = 400
    /\ req[q].op = "POST /ingest"
    /\ req[q].attempts # <<>>

\* The place of a statement of execute in the order validate (which ends at
\* "preprocess"), preprocess, run, postprocess, clamp, stamp
StepRank(p) ==
  CASE p = "idle" -> 0
    [] p = "preprocess" -> 1
    [] p = "run" -> 2
    [] p = "postprocess" -> 3
    [] p = "clamp" -> 4
    [] p = "stamp" -> 5
    [] p = "except" -> 6
    [] OTHER -> 7

\* Every step of an execute moves it to the next statement in the order, to its
\* except clause or to its end; the except clause calls no hook and no run.
StepsInOrder ==
  \A i \in Inv :
    (op'[i] = "execute" /\ pc'[i] # pc[i])
      => /\ StepRank(pc'[i]) > StepRank(pc[i])
         /\ \/ StepRank(pc'[i]) = StepRank(pc[i]) + 1
            \/ pc'[i] \in {"except", "done"}
         /\ pc[i] = "except" => result'[i] = result[i]
         /\ result'[i].kind # result[i].kind => pc[i] = "run"

\* Run is not invoked on an input that the agent's preprocess rejects.
NoRunAfterRejection ==
  \A i \in Inv :
    (op[i] = "execute" /\ agent[i] \in AsyncAgents
       /\ AgentPreprocess(agent[i], input[i]) # NoExc)
      => /\ pc[i] \in {"preprocess", "except", "done"}
         /\ result[i] = NoResult
         /\ calls[i] = <<>>

\* A result that is not a fallback is returned only once run has completed: by
\* execute only with run's result in hand, by run only as what the last gateway
\* answer of the invocation parsed to or, without a call, as the result that an
\* invocation with the same cache key got from the gateway and stored.
ReturnedAfterRunCompleted ==
  \A i \in Inv :
    (ReturnedOutput(i) /\ NotFallback(outcome[i].value))
      => /\ op[i] = "execute" => result[i].kind = "dict"
         /\ op[i] = "run"
              => IF calls[i] = <<>>
                 THEN \E k \in Inv :
                        /\ op[k] = "run"
                        /\ agent[k] = agent[i]
                        /\ CacheKey(agent[k], input[k]) = CacheKey(agent[i], input[i])
                        /\ calls[k] # <<>>
                        /\ outcome[k] = outcome[i]
                 ELSE /\ Len(responses[i]) = Len(calls[i])
                      /\ Tried(i, Len(responses[i])).ok
                      /\ outcome[i].value = Tried(i, Len(responses[i])).value

\* C20: execute runs validate, preprocess, run, postprocess, clamp and stamp in
\* that order, each at most once; run is not invoked when preprocess raises;
\* and a non-fallback output is returned only after run has completed.
C20_StepsInOrder ==
  /\ [][StepsInOrder]_vars
  /\ [](NoRunAfterRejection /\ ReturnedAfterRunCompleted)

\* One execute went through every step up to the stamp, another was stopped by
\* its preprocess and ended without a result of run
C20_Witness ==
  \E i, j \in Inv :
    /\ op[i] = "execute" /\ Done(i) /\ result[i].kind = "dict"
    /\ exc[i] = LatencyError
    /\ op[j] = "execute" /\ Done(j) /\ agent[j] \in AsyncAgents
    /\ AgentPreprocess(agent[j], input[j]) # NoExc
    /\ exc[j] = AgentPreprocess(agent[j], input[j])
    /\ result[j] = NoResult

\* The input passes the field validation and the agent's preprocess rejects it.
Rejected(a, input_data) ==
  /\ ValidateInput(input_data) = NoExc
  /\ IF a = "draft"
     THEN DraftPreprocess(input_data) # NoExc
     ELSE ClassifyPreprocess(input_data) # NoExc

\* C21: a preprocess rejection (content too short, a draft classification
\* without category or intent) happens before any gateway call and before any
\* cache read or write: the invocation makes no gateway call, run is never
\* entered for it, and none of its steps changes the cache.
C21_RejectionBeforeGatewayAndCache ==
  /\ [](\A i \in Inv :
         (op[i] # "idle" /\ agent[i] \in AsyncAgents /\ Rejected(agent[i], input[i]))
           => /\ op[i] = "execute"
              /\ calls[i] = <<>>
              /\ responses[i] = <<>>
              /\ result[i] = NoResult
              /\ pc[i] \in {"preprocess", "except", "done"})
  /\ [][\A i \in Inv :
         ( /\ cur = i \/ cur' = i
           /\ agent'[i] \in AsyncAgents
           /\ Rejected(agent'[i], input'[i]) )
           => cache' = cache /\ inserted' = inserted]_vars

\* A rejected invocation has ended while the cache holds an entry.
C21_Witness ==
  \E i \in Inv :
    /\ op[i] = "execute"
    /\ agent[i] = "draft"
    /\ Rejected("draft", input[i])
    /\ ~Falsy(input[i], "content")
    /\ Len(Strip(input[i]["content"])) >= MinContentLen
    /\ Done(i)
    /\ cache["draft"] # EmptyDict

\* C22: a cache entry never changes once inserted: whatever the invocations
\* do (hits, concurrent misses on the same key), the value stored under a key
\* stays the value first inserted under it.
C22_CacheEntryImmutable ==
  [][\A a \in AsyncAgents : \A key \in DOMAIN cache[a] :
       ~Expired(inserted[a][key], now')
         => Has(cache'[a], key) /\ cache'[a][key] = cache[a][key]]_vars

\* Invocation i has looked in the cache, missed, and has not yet come to the
\* cache write of its run.
BetweenReadAndWrite(i) ==
  op[i] = "run" /\ pc[i] \in {"await_primary", "await_fallback"}

\* C23: no invocation is suspended between its cache read for a key and its
\* cache write for that key, so no other invocation reads or writes the key
\* between the two.
C23_NoSuspensionBetweenReadAndWrite ==
  \A i \in Inv : \A j \in Inv \ {i} :
    ~( /\ BetweenReadAndWrite(i)
       /\ op[j] = "run"
       /\ agent[j] = agent[i]
       /\ CacheKey(agent[j], input[j]) = CacheKey(agent[i], input[i])
       /\ checked[j] >= checked[i] )

\* Two requests to an agent are identical: the same sanitized content and, for
\* a draft, the same classification category and intent.
SameFingerprint(a, x, y) ==
  /\ Sanitize(x["content"]) = Sanitize(y["content"])
  /\ a = "draft" =>
       /\ Get(x["classification"], "category", None)
            = Get(y["classification"], "category", None)
       /\ Get(x["classification"], "intent", None)
            = Get(y["classification"], "intent", None)

\* Invocation i returned what its own last gateway reply parses to.
ReturnedOwnReply(i) ==
  /\ calls[i] # <<>>
  /\ Len(responses[i]) = Len(calls[i])
  /\ Tried(i, Len(responses[i])).ok
  /\ outcome[i].value = Tried(i, Len(responses[i])).value

\* Invocation i made no call and returned what an identical request, which
\* did call the gateway, has returned and stored.
ReturnedStoredEntry(i) ==
  /\ calls[i] = <<>>
  /\ \E k \in Inv \ {i} :
       /\ op[k] = "run"
       /\ agent[k] = agent[i]
       /\ SameFingerprint(agent[i], input[k], input[i])
       /\ ReturnedOwnReply(k)
       /\ outcome[k] = outcome[i]

\* C24: under every interleaving of invocations on one agent instance (two
\* identical requests may both miss and both call the gateway), each
\* invocation makes at most two gateway calls, and what it returns is parsed
\* from the reply to its own last gateway call or is a cache entry stored by
\* a request with its own fingerprint; otherwise it fails, which is the case
\* the fallback output stands for.
C24_InterleavedRequestsStayApart ==
  \A i \in Inv :
    op[i] = "run" =>
      /\ Len(calls[i]) <= 2
      /\ Len(responses[i]) <= Len(calls[i])
      /\ ReturnedOutput(i) => ReturnedOwnReply(i) \/ ReturnedStoredEntry(i)
      /\ (Done(i) /\ ~ReturnedOutput(i))
           => outcome[i].kind = "raised" /\ calls[i] # <<>>

\* Two identical requests both missed, both called the gateway, and each
\* returned the result of its own call, the two results being different.
C24_Witness ==
  \E i, j \in Inv :
    /\ i # j
    /\ op[i] = "run" /\ op[j] = "run"
    /\ agent[i] = agent[j]
    /\ SameFingerprint(agent[i], input[i], input[j])
    /\ Len(calls[i]) = 2 /\ calls[j] # <<>>
    /\ ReturnedOwnReply(i) /\ ReturnedOwnReply(j)
    /\ ReturnedOutput(i) /\ ReturnedOutput(j)
    /\ outcome[i] # outcome[j]

\* C25: the cache only ever holds successful results: every cached value has
\* fallback_used false, no error and a confidence of at least 0.7; and an
\* invocation that ends in failure leaves the cache as it was.
C25_CacheHoldsOnlySuccesses ==
  /\ [](\A a \in AsyncAgents : \A key \in DOMAIN cache[a] :
         /\ cache[a][key]["fallback_used"] = FALSE
         /\ cache[a][key]["error"] = None
         /\ cache[a][key]["confidence"] >= ConfidenceThreshold
         /\ key \in DOMAIN inserted[a])
  /\ [][\A i \in Inv :
         (~Done(i) /\ pc'[i] = "done" /\ outcome'[i].kind = "raised")
           => cache' = cache /\ inserted' = inserted]_vars

\* An invocation has failed on a low-confidence answer of the fallback model
\* while the cache holds another request's entry, and nothing was stored
\* under the failed request's key.
C25_Witness ==
  \E i \in Inv :
    /\ op[i] = "run"
    /\ Done(i)
    /\ outcome[i].kind = "raised"
    /\ Len(responses[i]) = 2
    /\ Tried(i, 2).ok
    /\ Tried(i, 2).value["confidence"] < ConfidenceThreshold
    /\ cache[agent[i]] # EmptyDict
    /\ ~Has(cache[agent[i]], CacheKey(agent[i], input[i]))

\* C26: a cache hit never serves an entry inserted an hour or more earlier:
\* a request that finds under its key an entry whose time-to-live has
\* elapsed misses the cache and makes a new primary-model gateway call.
C26_HitOnlyWithinTtl ==
  [][\A j \in Inv :
       (op[j] = "idle" /\ op'[j] = "run") =>
         LET a == agent'[j]
             key == CacheKey(a, input'[j])
         IN  /\ calls'[j] = <<>> =>
                  /\ Has(inserted[a], key)
                  /\ now - inserted[a][key] < CacheTtl
                  /\ outcome'[j] = Returned(cache[a][key])
             /\ (Has(inserted[a], key) /\ now - inserted[a][key] >= CacheTtl) =>
                  /\ calls'[j] = <<GatewayCall(PrimaryModel, BuildPrompt(a, input'[j]))>>
                  /\ pc'[j] = "await_primary"
                  /\ ~ReturnedOutput(j)']_vars

\* A request arrived an hour or more after an identical request's result was
\* stored, found the old entry still in place, and is calling the primary model.
C26_Witness ==
  \E i, j \in Inv :
    /\ i # j
    /\ op[i] = "run" /\ op[j] = "run"
    /\ agent[i] = agent[j]
    /\ CacheKey(agent[i], input[i]) = CacheKey(agent[j], input[j])
    /\ ReturnedOutput(i) /\ calls[i] # <<>>
    /\ Has(inserted[agent[i]], CacheKey(agent[i], input[i]))
    /\ cache[agent[i]][CacheKey(agent[i], input[i])] = outcome[i].value
    /\ checked[j] >= inserted[agent[i]][CacheKey(agent[i], input[i])] + CacheTtl
    /\ pc[j] = "await_primary"
    /\ calls[j] = <<GatewayCall(PrimaryModel, BuildPrompt(agent[j], input[j]))>>

\* Request j was served from the cache the result that request k obtained
\* from the gateway.
ServedResultOf(j, k) ==
  /\ j # k
  /\ op[j] = "run" /\ op[k] = "run"
  /\ agent[j] = agent[k]
  /\ ReturnedOutput(j) /\ calls[j] = <<>>
  /\ ReturnedOwnReply(k)
  /\ CacheKey(agent[k], input[k]) = CacheKey(agent[j], input[j])
  /\ outcome[j] = outcome[k]

\* C27: a classification cache hit is served only to a request whose prompt
\* (sanitized content, product, channel) equals the prompt of the request
\* that populated the entry.
C27_HitOnlyForSamePrompt ==
  \A j, k \in Inv :
    (agent[j] = "classify" /\ ServedResultOf(j, k))
      => BuildPrompt("classify", input[j]) = calls[k][1].prompt

\* C28: every non-fallback output of the draft agent, fresh or served from the
\* cache, has the confidence (0.85 when the input gives none), priority and
\* recommended_queue of the classification in the same request's input, and
\* that confidence has passed the 0.7 threshold.
C28_DraftInheritsClassification ==
  \A i \in Inv :
    (op[i] = "run" /\ agent[i] = "draft" /\ ReturnedOutput(i)) =>
      LET classification == input[i]["classification"]
          output == outcome[i].value
      IN  /\ output["confidence"]
               = Get(classification, "confidence", DefaultDraftConfidence)
          /\ output["confidence"] >= ConfidenceThreshold
          /\ Has(classification, "priority")
               => output["priority"] = classification["priority"]
          /\ Has(classification, "recommended_queue")
               => output["recommended_queue"] = classification["recommended_queue"]

\* C29: in every non-fallback output of the classification agent, category,
\* priority and recommended_queue are values the accepted model reply itself
\* contained, each inside its enumeration; a reply lacking one of them is not
\* completed with a default.
C29_NoSilentCoercion ==
  \A i \in Inv :
    (op[i] = "run" /\ agent[i] = "classify" /\ ReturnedOutput(i) /\ ReturnedOwnReply(i)) =>
      LET reply == responses[i][Len(responses[i])].reply
          data == IF reply.brace THEN reply.data ELSE EmptyDict
          output == outcome[i].value
      IN  /\ Has(data, "category") /\ output["category"] = data["category"]
          /\ Has(data, "priority") /\ output["priority"] = data["priority"]
          /\ Has(data, "recommended_queue")
          /\ output["recommended_queue"] = data["recommended_queue"]
          /\ output["category"] \in CategoryType
          /\ output["priority"] \in PriorityLevel
          /\ output["recommended_queue"] \in QueueType

\* C30: the reply_draft that _process_reply produces is trimmed, at most 1000
\* characters long and, when not empty, ends with a period, for every reply,
\* those longer than 1000 characters included.
C30_ProcessReplyBounded ==
  applied.name = "_process_reply" =>
    /\ Len(applied.value) <= MaxReplyLen
    /\ Strip(applied.value) = applied.value
    /\ applied.value # <<>> => applied.value[Len(applied.value)] = "."

\* The agent invocations request r has made, in order
ExecuteCalls(r) ==
  SelectSeq(req[r].called,
            LAMBDA c : c \in {"classify_agent.execute", "draft_agent.execute"})

\* Request r is a /triage request, or an /ingest request whose message was
\* ingested, and its handler has ended.
TriagedRequest(r) ==
  /\ req[r].pc = "done"
  /\ \/ req[r].op = "POST /triage"
     \/ req[r].op = "POST /ingest" /\ req[r].ingested.kind = "returned"

\* C31: a /triage or /ingest request performs exactly one classification
\* invocation followed by exactly one draft invocation, the draft starting
\* after the classification has returned and receiving its output.
C31_ClassifyThenDraft ==
  \A r \in Req :
    TriagedRequest(r)
      => /\ ExecuteCalls(r) = <<"classify_agent.execute", "draft_agent.execute">>
         /\ req[r].response.status # ServerError

\* The correlation identifiers carried by the agent_execution events that
\* the invocations have emitted
EventRequestIds ==
  UNION { { log[i][k].request_id : k \in AgentEvents(i) } : i \in Inv }

\* C32: the correlation identifier attached to the observability data of an
\* agent invocation is the identifier of the request that started it: a
\* request whose handler has set the agents' metadata and ended has its own
\* identifier, and no other request's, on the events of its invocations.
C32_EventCarriesRequestId ==
  \A r \in Req :
    TriagedRequest(r)
      => /\ req[r].exc # SetMetadataError
         /\ ExecuteCalls(r) # <<>>
         /\ req[r].request_id \in EventRequestIds

\* Invocation i has returned the result of its fallback-model call, made
\* after its primary-model call failed.
ServedByFallbackModel(i) ==
  /\ op[i] = "run"
  /\ Done(i)
  /\ ReturnedOutput(i)
  /\ Len(calls[i]) = 2
  /\ calls[i][2].model = FallbackModel
  /\ responses[i][1].kind = "error"

LowConfidenceClassification(input_data) ==
  /\ Has(input_data, "classification")
  /\ Get(input_data["classification"], "confidence", DefaultDraftConfidence)
       < ConfidenceThreshold

\* C34: when the classification passed to the draft agent has a confidence
\* below 0.7 and the draft cache has no entry for the request, the draft
\* agent's execute returns the fallback response (fallback_used true)
\* whatever the gateway replies, after calling the gateway.
C34_LowConfidenceDraftIsFallback ==
  \A i \in Inv :
    ( /\ op[i] = "execute"
      /\ agent[i] = "draft"
      /\ Done(i)
      /\ PassesContract(i)
      /\ LowConfidenceClassification(input[i])
      /\ ~Has(cache["draft"], CacheKey("draft", input[i])) )
      => /\ ReturnedOutput(i)
         /\ outcome[i].value["fallback_used"] = TRUE
         /\ calls[i] # <<>>

\* The same case on run awaited directly: the gateway is called and run never
\* returns a result, whatever the gateway replies.
LowConfidenceDraftRunFails ==
  \A i \in Inv :
    (op[i] = "run" /\ agent[i] = "draft" /\ LowConfidenceClassification(input[i]))
      => /\ ~ReturnedOutput(i) \/ calls[i] = <<>>
         /\ Done(i) /\ calls[i] # <<>> => outcome[i].kind = "raised"

\* The posted payload has no sender or no content under the keys of its channel.
LacksSenderOrContent(body) ==
  \/ body.json # "object"
  \/ LET channel == LowerName(Get(body.payload, "channel", "webhook"))
     IN  \/ FirstTruthy(body.payload, SenderKeys(channel), <<>>) = <<>>
         \/ FirstTruthy(body.payload, ContentKeys(channel), <<>>) = <<>>

\* C35: handle_webhook ends in one of two ways only: a payload without sender
\* or content is answered 400 with no classification invocation; any other
\* failure yields the fixed fallback ClassificationResult (General Inquiry,
\* Medium, Unknown, Customer Support, confidence 0.0, fallback_used true,
\* error set).
C35_WebhookEndsIn400OrFallback ==
  applied.name = "handle_webhook" =>
    LET body == applied.arg.body
        called == applied.value.called
        ended == applied.value.outcome
    IN  /\ \A k \in 1..Len(called) : called[k] # "classify_agent.execute"
        /\ IF LacksSenderOrContent(body)
           THEN ended.kind = "http_error" /\ ended.status = BadRequest
           ELSE /\ ended.kind = "result"
                /\ StandardFallback(ended.result, ended.result["error"])
                /\ ended.result["error"] # ""

\* C36: sanitized content contains no newline and no carriage return, has no
\* leading or trailing whitespace and is at most 2000 characters long, for
\* every input content; sanitizing it again returns it unchanged.
C36_SanitizedContentIsClean ==
  applied.name = "_sanitize" =>
    /\ \A k \in 1..Len(applied.value) : applied.value[k] \notin {"\n", "\r"}
    /\ Len(applied.value) <= MaxContentLen
    /\ applied.value # <<>> =>
         /\ applied.value[1] \notin Whitespace
         /\ applied.value[Len(applied.value)] \notin Whitespace
    /\ Sanitize(applied.value) = applied.value

\* C37: the tone is a function of the classification's category alone: each
\* of the five categories has its fixed tone, and a missing or unrecognized
\* category has 'neutral and helpful'; no other field changes it.
C37_ToneIsFunctionOfCategory ==
  applied.name = "_infer_tone" =>
    LET classification == applied.arg
    IN  /\ ~Has(classification, "category") => applied.value = "neutral and helpful"
        /\ Has(classification, "category") =>
             LET category == classification["category"]
             IN  /\ category = "Billing Support" => applied.value = "reassuring and precise"
                 /\ category = "Sensor Alert"
                      => applied.value = "calm and technically confident"
                 /\ category = "Dispatch Communication"
                      => applied.value = "prompt and respectful"
                 /\ category = "Marketing" => applied.value = "brief and compliant"
                 /\ category = "General Inquiry" => applied.value = "neutral and helpful"
                 /\ category \notin CategoryType => applied.value = "neutral and helpful"

\* An unrecognized category, given with a High priority, got the default tone.
C37_Witness ==
  /\ applied.name = "_infer_tone"
  /\ Has(applied.arg, "category")
  /\ applied.arg["category"] \notin CategoryType
  /\ Has(applied.arg, "priority")
  /\ applied.arg["priority"] = "High"
  /\ applied.value = "neutral and helpful"

====
